---- MODULE Spec2Model ----
(***************************************************************************)
(* Model of src/wasm32/js/module_worker_start.js: the module-level binding *)
(* _worker and the exported function startWorker(), which builds a URL     *)
(* relative to import.meta.url, constructs a module Worker named           *)
(* 'wasm_thread' on it, stores the handle in _worker and returns it.       *)
(*                                                                         *)
(* The function body is modelled statement by statement (pc), because the  *)
(* spawned worker is a real thread that runs in parallel with the body.    *)
(* Calls themselves never overlap: the body is synchronous JavaScript and  *)
(* _worker is a binding of one module instance, so a second call can start *)
(* only when the first has returned or thrown.                             *)
(***************************************************************************)
EXTENDS Naturals, Sequences, FiniteSets

VARIABLES
    moduleUrl,  \* import.meta.url of the module instance
    _worker,    \* the module-level binding `let _worker`
    pc,         \* position of the running call, "idle" when none runs
    callerUrl,  \* location of the code that made the current call
    pre,        \* value of _worker when the current call was entered
    url,        \* the URL object built on line 4
    worker,     \* the local `const worker`
    threads,    \* threads[h]: state of the thread behind handle h
    requests,   \* every invocation of the Worker constructor, in order
    stores,     \* every handle assigned to _worker, in order
    outcomes    \* how each finished call ended, in order

vars == <<moduleUrl, _worker, pc, callerUrl, pre, url, worker, threads,
          requests, stores, outcomes>>

\* Bound of the model: the number of calls to startWorker() explored.
MaxCalls == 3

\* `let _worker;` leaves the binding undefined; handles are 1, 2, ...
Undefined == 0

Last(s) == s[Len(s)]
Front(s) == SubSeq(s, 1, Len(s) - 1)

----------------------------------------------------------------------------
(* URLs and the resolution performed by `new URL(relative, base)`.         *)

HttpUrl(host, path) == [scheme |-> "https", host |-> host, path |-> path]

NoUrl == [scheme |-> "", host |-> "", path |-> <<>>]

\* Locations the module itself can be loaded from.  A module imported from
\* a data: URL has an opaque path, against which nothing relative resolves.
ModuleLocations ==
    { HttpUrl("app.example", <<"pkg", "snippets", "module_worker_start.js">>),
      HttpUrl("cdn.example", <<"module_worker_start.js">>),
      [scheme |-> "data", host |-> "", path |-> <<"text/javascript,...">>] }

\* Locations of the code that calls startWorker().
CallerLocations ==
    { HttpUrl("app.example", <<"index.html">>),
      HttpUrl("app.example", <<"pkg", "main.js">>) }

\* The first argument of `new URL`, split at '/'.
RelativePath == <<".", "web_worker_module.js">>

HasOpaquePath(u) == u.scheme \in {"data", "blob", "mailto"}

RECURSIVE ApplySegments(_, _)
ApplySegments(path, segs) ==
    IF segs = <<>> THEN path
    ELSE LET s == Head(segs) IN
         ApplySegments(IF s = "." THEN path
                       ELSE IF s = ".." THEN
                            (IF path = <<>> THEN path ELSE Front(path))
                       ELSE Append(path, s),
                       Tail(segs))

\* `new URL(rel, base)` throws a TypeError when base cannot be a base URL.
CanResolve(base) == ~HasOpaquePath(base)

\* Otherwise: the base path without its last segment, then the segments
\* of the relative reference applied one by one.
ResolveURL(rel, base) ==
    [scheme |-> base.scheme, host |-> base.host,
     path |-> ApplySegments(Front(base.path), rel)]

UrlError == "TypeError"
SpawnError == "SecurityError"

----------------------------------------------------------------------------
(* The expressions of startWorker().                                       *)

ImportMetaUrl_callerRelative == callerUrl

\* `import.meta.url`, the second argument of `new URL`.
ImportMetaUrl == moduleUrl

WorkerOptions_stateDependent ==
    IF _worker = Undefined
    THEN [type |-> "module", name |-> "wasm_thread"]
    ELSE [type |-> "classic", name |-> "wasm_thread_2"]

\* The options object literal passed to the Worker constructor.
WorkerOptions == [type |-> "module", name |-> "wasm_thread"]

After_deferredStore(p) ==
    CASE p = "resolve" -> "spawn"
      [] p = "spawn"   -> "return"
      [] p = "return"  -> "store"
      [] p = "store"   -> "idle"

\* Statement order of the body: new URL, new Worker, _worker = worker,
\* return worker.
After(p) ==
    CASE p = "resolve" -> "spawn"
      [] p = "spawn"   -> "store"
      [] p = "store"   -> "return"
      [] p = "return"  -> "idle"

----------------------------------------------------------------------------
Init ==
    /\ moduleUrl \in ModuleLocations
    /\ _worker = Undefined
    /\ pc = "idle"
    /\ callerUrl = NoUrl
    /\ pre = Undefined
    /\ url = NoUrl
    /\ worker = Undefined
    /\ threads = <<>>
    /\ requests = <<>>
    /\ stores = <<>>
    /\ outcomes = <<>>

Call_clearsBinding(c) ==
    /\ pc = "idle"
    /\ Len(outcomes) < MaxCalls
    /\ pc' = "resolve"
    /\ callerUrl' = c
    /\ pre' = _worker
    /\ _worker' = Undefined
    /\ url' = NoUrl
    /\ worker' = Undefined
    /\ UNCHANGED <<moduleUrl, threads, requests, stores, outcomes>>

\* Some code at location c calls startWorker(); the locals start empty.
Call(c) ==
    /\ pc = "idle"
    /\ Len(outcomes) < MaxCalls
    /\ pc' = "resolve"
    /\ callerUrl' = c
    /\ pre' = _worker
    /\ url' = NoUrl
    /\ worker' = Undefined
    /\ UNCHANGED <<moduleUrl, _worker, threads, requests, stores, outcomes>>

Raise_swallowed(e) ==
    /\ outcomes' = Append(outcomes,
          [kind |-> "return", at |-> pc, error |-> "", value |-> Undefined,
           before |-> pre, caller |-> callerUrl])
    /\ pc' = "idle"

\* An exception thrown inside the body: nothing catches it, so the call
\* ends there and the caller receives e.
Raise(e) ==
    /\ outcomes' = Append(outcomes,
          [kind |-> "raise", at |-> pc, error |-> e, value |-> Undefined,
           before |-> pre, caller |-> callerUrl])
    /\ pc' = "idle"

\* new URL('./web_worker_module.js', import.meta.url)
NewURL ==
    /\ pc = "resolve"
    /\ IF CanResolve(ImportMetaUrl)
       THEN /\ url' = ResolveURL(RelativePath, ImportMetaUrl)
            /\ pc' = After(pc)
            /\ UNCHANGED outcomes
       ELSE /\ Raise(UrlError)
            /\ UNCHANGED url
    /\ UNCHANGED <<moduleUrl, _worker, callerUrl, pre, worker, threads,
                   requests, stores>>

NewWorkerOk_twice ==
    /\ pc = "spawn"
    /\ requests' = requests \o
          << [url |-> url, options |-> WorkerOptions, caller |-> callerUrl],
             [url |-> url, options |-> WorkerOptions, caller |-> callerUrl] >>
    /\ threads' = threads \o <<"spawned", "spawned">>
    /\ worker' = Len(threads) + 2
    /\ pc' = After(pc)
    /\ UNCHANGED <<moduleUrl, _worker, callerUrl, pre, url, stores, outcomes>>

NewWorkerOk_reusesStored ==
    /\ pc = "spawn"
    /\ requests' = Append(requests,
          [url |-> url, options |-> WorkerOptions, caller |-> callerUrl])
    /\ IF _worker # Undefined
       THEN worker' = _worker /\ threads' = threads
       ELSE worker' = Len(threads) + 1 /\ threads' = Append(threads, "spawned")
    /\ pc' = After(pc)
    /\ UNCHANGED <<moduleUrl, _worker, callerUrl, pre, url, stores, outcomes>>

\* new Worker(url, options) succeeds: one request, one new thread, one new
\* handle, different from every handle made before.
NewWorkerOk ==
    /\ pc = "spawn"
    /\ requests' = Append(requests,
          [url |-> url, options |-> WorkerOptions, caller |-> callerUrl])
    /\ threads' = Append(threads, "spawned")
    /\ worker' = Len(threads) + 1
    /\ pc' = After(pc)
    /\ UNCHANGED <<moduleUrl, _worker, callerUrl, pre, url, stores, outcomes>>

\* new Worker(url, options) throws (the host refuses to create the thread).
NewWorkerThrows ==
    /\ pc = "spawn"
    /\ requests' = Append(requests,
          [url |-> url, options |-> WorkerOptions, caller |-> callerUrl])
    /\ Raise(SpawnError)
    /\ UNCHANGED <<moduleUrl, _worker, callerUrl, pre, url, worker, threads,
                   stores>>

Store_onlyFirst ==
    /\ pc = "store"
    /\ _worker' = IF _worker = Undefined THEN worker ELSE _worker
    /\ stores' = IF _worker = Undefined THEN Append(stores, worker) ELSE stores
    /\ pc' = After(pc)
    /\ UNCHANGED <<moduleUrl, callerUrl, pre, url, worker, threads, requests,
                   outcomes>>

Store_terminatesPrevious ==
    /\ pc = "store"
    /\ threads' = IF _worker \in DOMAIN threads
                  THEN [threads EXCEPT ![_worker] = "terminated"]
                  ELSE threads
    /\ _worker' = worker
    /\ stores' = Append(stores, worker)
    /\ pc' = After(pc)
    /\ UNCHANGED <<moduleUrl, callerUrl, pre, url, worker, requests, outcomes>>

\* _worker = worker;
Store ==
    /\ pc = "store"
    /\ _worker' = worker
    /\ stores' = Append(stores, worker)
    /\ pc' = After(pc)
    /\ UNCHANGED <<moduleUrl, callerUrl, pre, url, worker, threads, requests,
                   outcomes>>

Return_awaitsReady ==
    /\ pc = "return"
    /\ worker \in DOMAIN threads
    /\ threads[worker] = "ready"
    /\ outcomes' = Append(outcomes,
          [kind |-> "return", at |-> pc, error |-> "", value |-> worker,
           before |-> pre, caller |-> callerUrl])
    /\ pc' = After(pc)
    /\ UNCHANGED <<moduleUrl, _worker, callerUrl, pre, url, worker, threads,
                   requests, stores>>

\* return worker;
Return ==
    /\ pc = "return"
    /\ outcomes' = Append(outcomes,
          [kind |-> "return", at |-> pc, error |-> "", value |-> worker,
           before |-> pre, caller |-> callerUrl])
    /\ pc' = After(pc)
    /\ UNCHANGED <<moduleUrl, _worker, callerUrl, pre, url, worker, threads,
                   requests, stores>>

\* The spawned thread, scheduled by the host: it starts, fetches its
\* script, and either runs it or fails to load it.
ThreadStep(h) ==
    /\ h \in DOMAIN threads
    /\ \/ threads[h] = "spawned" /\ threads' = [threads EXCEPT ![h] = "loading"]
       \/ threads[h] = "loading" /\ threads' = [threads EXCEPT ![h] = "ready"]
       \/ threads[h] = "loading" /\ threads' = [threads EXCEPT ![h] = "loadError"]
    /\ UNCHANGED <<moduleUrl, _worker, pc, callerUrl, pre, url, worker,
                   requests, stores, outcomes>>

\* The statements of the body after the call was entered.
Body == NewURL \/ NewWorkerOk \/ NewWorkerThrows \/ Store \/ Return

StartWorkerStep == (\E c \in CallerLocations : Call(c)) \/ Body

Next ==
    \/ \E c \in CallerLocations : Call(c)
    \/ NewURL
    \/ NewWorkerOk
    \/ NewWorkerThrows
    \/ Store
    \/ Return
    \/ \E h \in 1..MaxCalls : ThreadStep(h)

Spec == Init /\ [][Next]_vars

\* A call that was entered runs to its end: synchronous code is not
\* suspended.  Nothing is assumed about the spawned threads.
SpecLive == Spec /\ WF_vars(Body)

----------------------------------------------------------------------------
(* Vocabulary of the properties.                                           *)

Idle == pc = "idle"

\* Indices of the calls that returned a handle / that threw.
ReturnIdx == {i \in DOMAIN outcomes : outcomes[i].kind = "return"}
RaiseIdx == {i \in DOMAIN outcomes : outcomes[i].kind = "raise"}

ReturnedHandles == {outcomes[i].value : i \in ReturnIdx}

MaxOf(S) == CHOOSE m \in S : \A k \in S : k <= m

\* The handle returned by the latest successful call among the first n
\* calls, Undefined when none of them succeeded.
LastReturned(n) ==
    LET S == {i \in ReturnIdx : i <= n} IN
    IF S = {} THEN Undefined ELSE outcomes[MaxOf(S)].value

\* The sibling of the module: its own location with the last path segment
\* replaced by web_worker_module.js.
SiblingOfModule ==
    [scheme |-> moduleUrl.scheme, host |-> moduleUrl.host,
     path |-> Append(Front(moduleUrl.path), "web_worker_module.js")]

----------------------------------------------------------------------------
\* C1: whenever a call to startWorker() has just returned H, H is a handle
\* (not undefined) and _worker is that very handle; this holds for every
\* call, the first and the later ones.
C1_ReturnedHandleIsStored ==
    /\ \A i \in ReturnIdx : outcomes[i].value # Undefined
    /\ (Idle /\ outcomes # <<>> /\ Last(outcomes).kind = "return")
          => _worker = Last(outcomes).value

C1_Witness ==
    /\ Idle
    /\ Cardinality(ReturnIdx) >= 2
    /\ Last(outcomes).kind = "return"
    /\ Last(outcomes).before # Undefined
    /\ _worker = Last(outcomes).value

\* C2: the handles returned by successful calls are pairwise different,
\* and between calls _worker is the handle returned by the most recent
\* successful call, whatever was returned before it.
C2_OverwriteByLatest ==
    /\ \A i, j \in ReturnIdx : i # j => outcomes[i].value # outcomes[j].value
    /\ (Idle /\ ReturnIdx # {}) => _worker = LastReturned(Len(outcomes))
    /\ \A i \in ReturnIdx : outcomes[i].value # outcomes[i].before

C2_Witness ==
    /\ Idle
    /\ Len(outcomes) = 2
    /\ outcomes[1].kind = "return"
    /\ outcomes[2].kind = "return"
    /\ outcomes[1].value # outcomes[2].value
    /\ _worker = outcomes[2].value
    /\ _worker # outcomes[1].value

\* C3: a failure of the URL resolution or of the Worker constructor ends
\* the call with that same failure (it is never turned into a return or
\* into another error), and _worker then holds what it held before the
\* call: undefined if no call had succeeded, else the handle of the last
\* successful call.
C3_FailurePropagatesNoUpdate ==
    /\ \A i \in DOMAIN outcomes :
          /\ outcomes[i].at = "resolve" =>
                outcomes[i].kind = "raise" /\ outcomes[i].error = UrlError
          /\ outcomes[i].at = "spawn" =>
                outcomes[i].kind = "raise" /\ outcomes[i].error = SpawnError
          /\ outcomes[i].kind = "raise" =>
                outcomes[i].before = LastReturned(i - 1)
    /\ (Idle /\ outcomes # <<>> /\ Last(outcomes).kind = "raise")
          => /\ _worker = Last(outcomes).before
             /\ _worker = LastReturned(Len(outcomes))

C3_Witness ==
    /\ Idle
    /\ Len(outcomes) >= 2
    /\ outcomes[1].kind = "return"
    /\ Last(outcomes).kind = "raise"
    /\ Last(outcomes).error = SpawnError
    /\ _worker = outcomes[1].value

\* C4: every invocation of the Worker constructor carries type 'module'
\* and name 'wasm_thread', whatever calls came before and whatever
\* _worker holds.
C4_ConstantOptions ==
    \A i \in DOMAIN requests :
        /\ requests[i].options.type = "module"
        /\ requests[i].options.name = "wasm_thread"
        /\ DOMAIN requests[i].options = {"type", "name"}

C4_Witness ==
    /\ Len(requests) >= 2
    /\ _worker # Undefined
    /\ pc = "store"
    /\ requests[Len(requests)].options.name = "wasm_thread"

\* C5: the location handed to the Worker constructor is always the
\* sibling web_worker_module.js of the module's own location; it is the
\* same for calls made from different locations.
C5_LocationRelativeToModule ==
    /\ \A i \in DOMAIN requests : requests[i].url = SiblingOfModule
    /\ \A i, j \in DOMAIN requests : requests[i].url = requests[j].url

C5_Witness ==
    /\ Len(requests) >= 2
    /\ requests[1].caller # requests[2].caller
    /\ requests[1].url = requests[2].url
    /\ requests[1].url # ResolveURL(RelativePath, requests[1].caller)
    /\ requests[2].url # ResolveURL(RelativePath, requests[2].caller)

\* C6 as stated: between calls, the Worker constructor has been invoked
\* exactly once per call made, the threads created are as many as the
\* calls that returned, and no call returned the handle _worker held.
C6_Original ==
    Idle =>
        /\ Len(requests) = Len(outcomes)
        /\ Len(threads) = Cardinality(ReturnIdx)
        /\ \A i \in ReturnIdx : outcomes[i].value # outcomes[i].before

\* C6 (amended): a call invokes the Worker constructor exactly once unless
\* the URL resolution before it throws, in which case it invokes it not at
\* all; the threads created are as many as the calls that returned, and no
\* call returned the handle _worker held when it was entered.
C6_OneSpawnPerCall ==
    /\ Idle =>
        /\ Len(requests) =
              Cardinality({i \in DOMAIN outcomes : outcomes[i].at # "resolve"})
        /\ Len(threads) = Cardinality(ReturnIdx)
    /\ Len(requests) <= Len(outcomes) + 1
    /\ \A i \in ReturnIdx : outcomes[i].value # outcomes[i].before
    /\ \A i \in DOMAIN outcomes :
          outcomes[i].at = "resolve" => ~CanResolve(moduleUrl)

C6_Witness ==
    /\ Idle
    /\ Len(outcomes) >= 3
    /\ Cardinality(ReturnIdx) = 2
    /\ Len(threads) = 2
    /\ Len(requests) = 3

\* Every step of a call leaves each existing thread in the state it had.
C7_Frame ==
    [][StartWorkerStep =>
          \A h \in DOMAIN threads :
              h \in DOMAIN threads' /\ threads'[h] = threads[h]]_vars

\* C7: no step of startWorker() changes the state of a thread that exists
\* already, and between calls every handle ever stored still names a
\* thread that was not terminated, the last of them being _worker.
C7_PreviousWorkerUntouched ==
    /\ [](\A i \in DOMAIN stores :
             stores[i] \in DOMAIN threads /\ threads[stores[i]] # "terminated")
    /\ []((Idle /\ stores # <<>>) => _worker = Last(stores))
    /\ C7_Frame

C7_Witness ==
    /\ Idle
    /\ Len(stores) = 2
    /\ _worker = stores[2]
    /\ stores[1] # stores[2]
    /\ threads[stores[1]] = "ready"

\* C8: a call that was entered always comes to its end (returns or
\* throws), though nothing is assumed about the progress of any spawned
\* thread: the thread may never start, never load, never become ready.
C8_CallCompletes == (pc # "idle") ~> (pc = "idle")

C8_Witness ==
    /\ Idle
    /\ outcomes # <<>>
    /\ Last(outcomes).kind = "return"
    /\ threads[Last(outcomes).value] = "spawned"
    /\ \E h \in DOMAIN threads : threads[h] = "loading"

C10_StateInv ==
    /\ \/ _worker = Undefined
       \/ _worker \in ReturnedHandles
       \/ pc = "return" /\ _worker = worker /\ worker \in DOMAIN threads
    /\ Idle => ((_worker = Undefined) <=> (ReturnIdx = {}))
    /\ Idle => (_worker # Undefined => _worker \in ReturnedHandles)

====
